---------------------------- MODULE Spec2Model ----------------------------
(***************************************************************************)
(* Model of the Raindrop.io MCP server (src/src/index.ts): the call-tool   *)
(* handler, the argument schemas (src/src/types/index.ts) and the REST     *)
(* client (src/src/lib/raindrop-api.ts).                                   *)
(*                                                                         *)
(* Representation.                                                         *)
(*  - A JS value that arrives in the tool arguments is a tagged record     *)
(*    (Undef, Str, Num, Half, Bool, Arr).  A string is a sequence of       *)
(*    one-character strings, so that URL parsing and form encoding work    *)
(*    on characters.  Num(i) is the integer i, Half(i) is i + 0.5.         *)
(*  - A text the server produces (an error message, a URL, a line of a     *)
(*    result) is a TLA+ string; a multi-line result text is the sequence   *)
(*    of its lines (the text is the lines joined by "\n").                 *)
(***************************************************************************)
EXTENDS Integers, Sequences, FiniteSets, TLC

VARIABLES RAINDROP_TOKEN, requests

vars == <<RAINDROP_TOKEN, requests>>

(***************************************************************************)
(* Bounds of the model.                                                    *)
(***************************************************************************)
MaxRequests == 2
MaxItems == 2

(***************************************************************************)
(* JS values.                                                              *)
(***************************************************************************)
Undef == [t |-> "undefined"]
Str(cs) == [t |-> "string", s |-> cs]
Num(i) == [t |-> "number", int |-> i, half |-> FALSE]
Half(i) == [t |-> "number", int |-> i, half |-> TRUE]
Bool(b) == [t |-> "boolean", b |-> b]
Arr(xs) == [t |-> "array", a |-> xs]
Obj(o) == [t |-> "object", o |-> o]

IsInteger(v) == v.t = "number" /\ ~v.half

\* v >= n and v <= n for a number v = v.int (+ 0.5) and an integer n
NumGe(v, n) == v.int >= n
NumLe(v, n) == v.int < n \/ (v.int = n /\ ~v.half)

RECURSIVE Concat(_)
Concat(cs) == IF cs = <<>> THEN "" ELSE Head(cs) \o Concat(Tail(cs))

RECURSIVE JoinStrings(_, _)
JoinStrings(ss, sep) ==
  IF ss = <<>> THEN ""
  ELSE IF Len(ss) = 1 THEN ss[1]
  ELSE ss[1] \o sep \o JoinStrings(Tail(ss), sep)

RECURSIVE JoinChars(_, _)
JoinChars(css, sep) ==
  IF css = <<>> THEN <<>>
  ELSE IF Len(css) = 1 THEN css[1]
  ELSE css[1] \o sep \o JoinChars(Tail(css), sep)

RECURSIVE Flatten(_)
Flatten(seqs) == IF seqs = <<>> THEN <<>> ELSE Head(seqs) \o Flatten(Tail(seqs))

RECURSIVE DigitChars(_)
DigitChars(n) ==
  IF n < 10 THEN <<ToString(n)>> ELSE DigitChars(n \div 10) \o <<ToString(n % 10)>>

\* The characters of Number.prototype.toString()
NumberChars(v) ==
  LET whole == IF v.half /\ v.int < 0 THEN -v.int - 1
               ELSE IF v.int < 0 THEN -v.int ELSE v.int
  IN (IF v.int < 0 THEN <<"-">> ELSE <<>>) \o DigitChars(whole)
     \o (IF v.half THEN <<".", "5">> ELSE <<>>)

NumberToString(v) == Concat(NumberChars(v))

\* JS truthiness of a value
Truthy(v) ==
  CASE v.t = "undefined" -> FALSE
    [] v.t = "string" -> v.s # <<>>
    [] v.t = "number" -> ~(v.int = 0 /\ ~v.half)
    [] v.t = "boolean" -> v.b
    [] OTHER -> TRUE


(***************************************************************************)
(* The schema library (zod 3), as far as the two schemas use it: an object *)
(* schema parses every key of its shape in declaration order and collects  *)
(* the issues of all of them; an issue is a path and a message.            *)
(***************************************************************************)
Lower == {"a","b","c","d","e","f","g","h","i","j","k","l","m",
          "n","o","p","q","r","s","t","u","v","w","x","y","z"}
Upper == {"A","B","C","D","E","F","G","H","I","J","K","L","M",
          "N","O","P","Q","R","S","T","U","V","W","X","Y","Z"}
Digit == {"0","1","2","3","4","5","6","7","8","9"}

\* Index of the first ":" of cs, 0 when there is none
FirstColon(cs) ==
  IF \E i \in 1..Len(cs) : cs[i] = ":"
  THEN CHOOSE i \in 1..Len(cs) : cs[i] = ":" /\ \A j \in 1..(i - 1) : cs[j] # ":"
  ELSE 0

SpecialSchemes == {"http", "https", "ftp", "ws", "wss"}

\* z.string().url(): `new URL(s)` does not throw.  Without a base, the input
\* needs a scheme (a letter, then letters, digits, "+", "-", "."), and a
\* special scheme needs a non-empty host after its slashes.
IsUrl(cs) ==
  LET i == FirstColon(cs)
      rest == SubSeq(cs, i + 1, Len(cs))
      hostAt == IF \E k \in 1..Len(rest) : rest[k] \notin {"/", "\\"}
                THEN CHOOSE k \in 1..Len(rest) :
                       /\ rest[k] \notin {"/", "\\"}
                       /\ \A j \in 1..(k - 1) : rest[j] \in {"/", "\\"}
                ELSE 0
  IN /\ i > 1
     /\ cs[1] \in Lower \cup Upper
     /\ \A j \in 2..(i - 1) : cs[j] \in Lower \cup Upper \cup Digit \cup {"+", "-", "."}
     /\ Concat(SubSeq(cs, 1, i - 1)) \in SpecialSchemes
          => (hostAt > 0 /\ rest[hostAt] \notin {"?", "#", ":", " "})

Issue(path, message) == [path |-> path, message |-> message]

InvalidType(path, expected, v) ==
  Issue(path, IF v.t = "undefined" THEN "Required"
              ELSE "Expected " \o expected \o ", received " \o v.t)

EnumList(values) ==
  JoinStrings([i \in 1..Len(values) |-> "'" \o values[i] \o "'"], " | ")

\* The issues of one element of z.array(z.string())
ElementIssues(key, xs, i) ==
  IF xs[i].t = "string" THEN <<>>
  ELSE <<InvalidType(<<key, ToString(i - 1)>>, "string", xs[i])>>

\* The issues a field schema f raises on the value v
FieldIssues(f, v) ==
  IF v.t = "undefined"
  THEN IF f.optional THEN <<>> ELSE <<InvalidType(<<f.key>>, f.kind, v)>>
  ELSE CASE f.kind = "string" ->
              IF v.t # "string" THEN <<InvalidType(<<f.key>>, "string", v)>>
              ELSE IF f.url /\ ~IsUrl(v.s) THEN <<Issue(<<f.key>>, "Invalid url")>>
              ELSE <<>>
         [] f.kind = "number" ->
              IF v.t # "number" THEN <<InvalidType(<<f.key>>, "number", v)>>
              ELSE (IF f.hasMin /\ ~NumGe(v, f.min)
                    THEN <<Issue(<<f.key>>, "Number must be greater than or equal to "
                                            \o ToString(f.min))>>
                    ELSE <<>>)
                   \o
                   (IF f.hasMax /\ ~NumLe(v, f.max)
                    THEN <<Issue(<<f.key>>, "Number must be less than or equal to "
                                            \o ToString(f.max))>>
                    ELSE <<>>)
         [] f.kind = "boolean" ->
              IF v.t # "boolean" THEN <<InvalidType(<<f.key>>, "boolean", v)>> ELSE <<>>
         [] f.kind = "array" ->
              IF v.t # "array" THEN <<InvalidType(<<f.key>>, "array", v)>>
              ELSE Flatten([i \in 1..Len(v.a) |-> ElementIssues(f.key, v.a, i)])
         [] f.kind = "enum" ->
              IF v.t # "string"
              THEN <<InvalidType(<<f.key>>, EnumList(f.values), v)>>
              ELSE IF \E i \in 1..Len(f.values) : f.values[i] = Concat(v.s) THEN <<>>
              ELSE <<Issue(<<f.key>>, "Invalid enum value. Expected " \o EnumList(f.values)
                                      \o ", received '" \o Concat(v.s) \o "'")>>

\* A field of an object schema
Field(key, kind, optional) ==
  [key |-> key, kind |-> kind, optional |-> optional, url |-> FALSE,
   hasMin |-> FALSE, min |-> 0, hasMax |-> FALSE, max |-> 0, values |-> <<>>]

\* The mutant of ZodParse that stops at the first issue
ZodParseFirstIssueOnly(schema, args) ==
  LET all == IF args.t # "object" THEN <<InvalidType(<<>>, "object", args)>>
             ELSE Flatten([i \in 1..Len(schema) |->
                             FieldIssues(schema[i], args.o[schema[i].key])])
  IN IF all = <<>> THEN <<>> ELSE <<all[1]>>

\* Schema.parse(args): the issues of a ZodError, <<>> when args is accepted.
\* args is Undef (the request carries no arguments) or Obj of a record that
\* maps every key of the shape to its value, Undef when the key is absent.
ZodParse(schema, args) ==
  IF args.t # "object" THEN <<InvalidType(<<>>, "object", args)>>
  ELSE Flatten([i \in 1..Len(schema) |-> FieldIssues(schema[i], args.o[schema[i].key])])

CreateBookmarkSchema ==
  << [Field("url", "string", FALSE) EXCEPT !.url = TRUE],
     Field("title", "string", TRUE),
     Field("tags", "array", TRUE),
     Field("collection", "number", TRUE) >>

SortKeys ==
  << "-created", "created", "-last_update", "last_update",
     "-title", "title", "-domain", "domain" >>

\* The mutant of SearchBookmarksSchema whose perpage has no upper limit
SearchBookmarksSchemaNoMax ==
  << Field("query", "string", FALSE),
     Field("tags", "array", TRUE),
     [Field("page", "number", TRUE) EXCEPT !.hasMin = TRUE, !.min = 0],
     [Field("perpage", "number", TRUE) EXCEPT !.hasMin = TRUE, !.min = 1],
     [Field("sort", "enum", TRUE) EXCEPT !.values = SortKeys],
     Field("collection", "number", TRUE),
     Field("word", "boolean", TRUE) >>

SearchBookmarksSchema ==
  << Field("query", "string", FALSE),
     Field("tags", "array", TRUE),
     [Field("page", "number", TRUE) EXCEPT !.hasMin = TRUE, !.min = 0],
     [Field("perpage", "number", TRUE) EXCEPT !.hasMin = TRUE, !.min = 1,
                                              !.hasMax = TRUE, !.max = 50],
     [Field("sort", "enum", TRUE) EXCEPT !.values = SortKeys],
     Field("collection", "number", TRUE),
     Field("word", "boolean", TRUE) >>


(***************************************************************************)
(* Platform functions.                                                     *)
(***************************************************************************)
\* URLSearchParams.toString(): the application/x-www-form-urlencoded
\* serialisation of one character
FormEncodeChar(c) ==
  CASE c \in Lower \cup Upper \cup Digit \cup {"*", "-", ".", "_"} -> c
    [] c = " " -> "+"
    [] c = "," -> "%2C"
    [] c = "&" -> "%26"
    [] c = "=" -> "%3D"
    [] c = ":" -> "%3A"
    [] c = "/" -> "%2F"
    [] c = "+" -> "%2B"
    [] c = "%" -> "%25"
    [] c = "?" -> "%3F"
    [] c = "#" -> "%23"

FormEncode(cs) == Concat([i \in 1..Len(cs) |-> FormEncodeChar(cs[i])])

\* new URLSearchParams(record).toString(); the record is a sequence of
\* <<name, characters>> pairs in insertion order
URLSearchParamsToString(pairs) ==
  JoinStrings([i \in 1..Len(pairs) |->
                 FormEncode(pairs[i][1]) \o "=" \o FormEncode(pairs[i][2])], "&")

\* The characters of a text the model keeps as a TLA+ string, for the texts
\* that go through URLSearchParams
Chars(s) ==
  CASE s = "search" -> <<"s","e","a","r","c","h">>
    [] s = "tags" -> <<"t","a","g","s">>
    [] s = "page" -> <<"p","a","g","e">>
    [] s = "perpage" -> <<"p","e","r","p","a","g","e">>
    [] s = "sort" -> <<"s","o","r","t">>
    [] s = "word" -> <<"w","o","r","d">>
    [] s = "true" -> <<"t","r","u","e">>
    [] s = "false" -> <<"f","a","l","s","e">>

\* The mutant of JSONStringify that writes an undefined member as null
JSONStringifyNulls(members) ==
  [i \in 1..Len(members) |->
     IF members[i][2].t = "undefined" THEN <<members[i][1], [t |-> "null"]>>
     ELSE members[i]]

\* JSON.stringify of an object literal, kept as the member list of the JSON
\* text: a member whose value is undefined is left out
JSONStringify(members) ==
  SelectSeq(members, LAMBDA m : m[2].t # "undefined")

\* new Date(iso).toLocaleString() (en-US, UTC)
ToLocaleString(iso) ==
  CASE iso = "2024-03-20T00:00:00.000Z" -> "3/20/2024, 12:00:00 AM"
    [] iso = "2024-03-21T09:30:00.000Z" -> "3/21/2024, 9:30:00 AM"
    [] OTHER -> "Invalid Date"

\* The string a template literal makes of a value
TemplateString(v) ==
  CASE v.t = "undefined" -> "undefined"
    [] v.t = "string" -> Concat(v.s)
    [] v.t = "number" -> NumberToString(v)
    [] v.t = "boolean" -> IF v.b THEN "true" ELSE "false"

(***************************************************************************)
(* The REST client, src/src/lib/raindrop-api.ts.                           *)
(***************************************************************************)
RAINDROP_API_BASE == "https://api.raindrop.io/rest/v1"

NoBody == [t |-> "undefined"]

\* The fetch call of makeRequest
makeRequest(token, endpoint, method, body) ==
  [url |-> RAINDROP_API_BASE \o endpoint,
   method |-> method,
   headers |-> [Authorization |-> "Bearer " \o Concat(token.s),
                ContentType |-> "application/json"],
   body |-> IF body.t = "undefined" THEN NoBody
            ELSE [t |-> "json", members |-> JSONStringify(body.o)]]

createBookmark(token, params) == makeRequest(token, "/raindrop", "POST", Obj(params))

searchBookmarks(token, collectionId, searchParams) ==
  makeRequest(token,
              "/raindrops/" \o NumberToString(collectionId) \o "?"
                \o URLSearchParamsToString(searchParams),
              "GET", Undef)

listCollections(token) == makeRequest(token, "/collections", "GET", Undef)

\* The error makeRequest throws on a response that is not ok
ApiError(statusText) == "Raindrop API error: " \o statusText


(***************************************************************************)
(* The call-tool handler, src/src/index.ts.                                *)
(*                                                                         *)
(* A request is a record: name and args are the request's parameters,      *)
(* reply is what the remote service will answer to the request's HTTP      *)
(* call (as the tests script it with mockFetch), pc is the request's       *)
(* position: "Idle" (not yet received), "Calling" (awaiting fetch),        *)
(* "Parsing" (awaiting response.json()), "Success", "Failed"; api is the   *)
(* token of the request's RaindropAPI instance, fetch the fetch calls the  *)
(* request has issued, content the lines of the returned text and error    *)
(* the message of the error the handler threw.                             *)
(***************************************************************************)
Requests == 1..MaxRequests

NewRequest(name, args, reply) ==
  [name |-> name, args |-> args, reply |-> reply, pc |-> "Idle",
   api |-> Undef, fetch |-> <<>>, content |-> <<>>, error |-> ""]

Fail(req, message) == [req EXCEPT !.pc = "Failed", !.error = message]
Succeed(req, lines) == [req EXCEPT !.pc = "Success", !.content = lines]
Await(req, call) == [req EXCEPT !.pc = "Calling", !.fetch = Append(@, call)]

\* lines 140-147: a ZodError becomes one Error naming every issue, any other
\* error is thrown on as it is
IssueText(e) == JoinStrings(e.path, ".") \o ": " \o e.message

InvalidArguments(issues) ==
  "Invalid arguments: "
    \o JoinStrings([i \in 1..Len(issues) |-> IssueText(issues[i])], ", ")

\* lines 47-55: the parameters of createBookmark
CreateParams(data) ==
  << <<"link", data.url>>, <<"title", data.title>>, <<"tags", data.tags>>,
     <<"collection",
       Obj(<< <<"$id", IF Truthy(data.collection) THEN data.collection ELSE Num(0)>> >>)>> >>

\* The mutant of SearchParams that tests every optional field for truthiness
SearchParamsTruthyOnly(data) ==
  << <<Chars("search"), data.query.s>> >>
  \o (IF Truthy(data.tags)
      THEN << <<Chars("tags"),
                JoinChars([i \in 1..Len(data.tags.a) |-> data.tags.a[i].s], <<",">>)>> >>
      ELSE <<>>)
  \o (IF Truthy(data.page) THEN << <<Chars("page"), NumberChars(data.page)>> >> ELSE <<>>)
  \o (IF Truthy(data.perpage)
      THEN << <<Chars("perpage"), NumberChars(data.perpage)>> >> ELSE <<>>)
  \o (IF Truthy(data.sort) THEN << <<Chars("sort"), data.sort.s>> >> ELSE <<>>)
  \o (IF Truthy(data.word)
      THEN << <<Chars("word"), Chars(IF data.word.b THEN "true" ELSE "false")>> >>
      ELSE <<>>)

\* lines 71-78: the record the URLSearchParams is built from; spreading a
\* falsy value adds nothing
SearchParams(data) ==
  << <<Chars("search"), data.query.s>> >>
  \o (IF Truthy(data.tags)
      THEN << <<Chars("tags"),
                JoinChars([i \in 1..Len(data.tags.a) |-> data.tags.a[i].s], <<",">>)>> >>
      ELSE <<>>)
  \o (IF data.page.t # "undefined"
      THEN << <<Chars("page"), NumberChars(data.page)>> >> ELSE <<>>)
  \o (IF data.perpage.t # "undefined"
      THEN << <<Chars("perpage"), NumberChars(data.perpage)>> >> ELSE <<>>)
  \o (IF Truthy(data.sort) THEN << <<Chars("sort"), data.sort.s>> >> ELSE <<>>)
  \o (IF data.word.t # "undefined"
      THEN << <<Chars("word"), Chars(IF data.word.b THEN "true" ELSE "false")>> >>
      ELSE <<>>)

\* line 80: collection ?? 0
CollectionId(data) == IF data.collection.t = "undefined" THEN Num(0) ELSE data.collection


\* An error value: a ZodError carries issues, any other error a message
ZodError(issues) == [zod |-> TRUE, issues |-> issues, message |-> ""]
Error(message) == [zod |-> FALSE, issues |-> <<>>, message |-> message]

\* The mutant of Catch that reports every error as a validation error
CatchRewritesAll(error) ==
  Error("Invalid arguments: " \o error.message)

\* lines 139-148: the catch clause of the handler
Catch(error) ==
  IF error.zod THEN Error(InvalidArguments(error.issues)) ELSE error

Throw(req, error) == Fail(req, Catch(error).message)

\* lines 83-93: the block of one search result
BookmarkBlock(item) ==
  << "",
     "Title: " \o item.title,
     "URL: " \o item.link,
     "Tags: " \o (IF item.tags.t # "undefined" /\ Len(item.tags.a) > 0
                  THEN JoinStrings(item.tags.a, ", ") ELSE "No tags"),
     "Created: " \o ToLocaleString(item.created),
     "Last Updated: " \o ToLocaleString(item.lastUpdate),
     "---" >>

\* line 103: ${page ?? 0 + 1}, which JS reads as page ?? (0 + 1)
PageLabel(page) ==
  IF page.t = "undefined" THEN NumberToString(Num(0 + 1)) ELSE NumberToString(page)

\* The mutant of SearchText that shows the number of returned items as the total
SearchTextCountsItems(data, results) ==
  IF Len(results.items.a) > 0
  THEN << "Found " \o ToString(Len(results.items.a)) \o " total bookmarks (showing "
            \o ToString(Len(results.items.a)) \o " on page " \o PageLabel(data.page) \o "):" >>
       \o Flatten([i \in 1..Len(results.items.a) |-> BookmarkBlock(results.items.a[i])])
  ELSE << "No bookmarks found matching your search." >>

\* lines 95-107: the text of a search result
SearchText(data, results) ==
  IF Len(results.items.a) > 0
  THEN << "Found " \o TemplateString(results.count) \o " total bookmarks (showing "
            \o ToString(Len(results.items.a)) \o " on page " \o PageLabel(data.page) \o "):" >>
       \o Flatten([i \in 1..Len(results.items.a) |-> BookmarkBlock(results.items.a[i])])
  ELSE << "No bookmarks found matching your search." >>

\* line 119: ${item.parent?._id || "None"}
ParentLabel(item) ==
  IF item.parent.t = "undefined" THEN "None"
  ELSE IF Truthy(item.parent.o._id) THEN TemplateString(item.parent.o._id)
  ELSE "None"

\* lines 113-123: the block of one collection
CollectionBlock(item) ==
  << "",
     "Name: " \o item.title,
     "ID: " \o TemplateString(item._id),
     "Count: " \o TemplateString(item.count) \o " bookmarks",
     "Parent: " \o ParentLabel(item),
     "Created: " \o ToLocaleString(item.created),
     "---" >>

\* lines 125-135: the text of a collection list
CollectionsText(collections) ==
  IF Len(collections.items.a) > 0
  THEN << "Found " \o ToString(Len(collections.items.a)) \o " collections:" >>
       \o Flatten([i \in 1..Len(collections.items.a) |->
                     CollectionBlock(collections.items.a[i])])
  ELSE << "No collections found." >>

TypeError(property) ==
  Error("Cannot read properties of undefined (reading '" \o property \o "')")

\* The mutant of UnknownTool that does not name the tool
UnknownToolUnnamed(name) == Error("Unknown tool")

\* line 138
UnknownTool(name) == Error("Unknown tool: " \o name)

\* The mutant of Receive that looks at the token only when it builds the
\* client, after the tool lookup and the validation
ReceiveValidatesFirst(req, token) ==
  LET r == [req EXCEPT !.api = IF Truthy(token) THEN token ELSE @]
      missing == Fail(req, "RAINDROP_TOKEN is not set")
  IN CASE r.name = "create-bookmark" ->
            LET issues == ZodParse(CreateBookmarkSchema, r.args)
            IN IF issues # <<>> THEN Throw(r, ZodError(issues))
               ELSE IF ~Truthy(token) THEN missing
               ELSE Await(r, createBookmark(r.api, CreateParams(r.args.o)))
       [] r.name = "search-bookmarks" ->
            LET issues == ZodParse(SearchBookmarksSchema, r.args)
            IN IF issues # <<>> THEN Throw(r, ZodError(issues))
               ELSE IF ~Truthy(token) THEN missing
               ELSE Await(r, searchBookmarks(r.api, CollectionId(r.args.o),
                                             SearchParams(r.args.o)))
       [] r.name = "list-collections" ->
            IF ~Truthy(token) THEN missing ELSE Await(r, listCollections(r.api))
       [] OTHER -> Throw(r, UnknownTool(r.name))

\* The handler from its entry to its first await (lines 36-50, 67-81,
\* 110-111, 138): one step of the event loop
Receive(req, token) ==
  IF ~Truthy(token) THEN Fail(req, "RAINDROP_TOKEN is not set")
  ELSE LET r == [req EXCEPT !.api = token]
       IN CASE r.name = "create-bookmark" ->
                 LET issues == ZodParse(CreateBookmarkSchema, r.args)
                 IN IF issues # <<>> THEN Throw(r, ZodError(issues))
                    ELSE Await(r, createBookmark(r.api, CreateParams(r.args.o)))
            [] r.name = "search-bookmarks" ->
                 LET issues == ZodParse(SearchBookmarksSchema, r.args)
                 IN IF issues # <<>> THEN Throw(r, ZodError(issues))
                    ELSE Await(r, searchBookmarks(r.api, CollectionId(r.args.o),
                                                  SearchParams(r.args.o)))
            [] r.name = "list-collections" -> Await(r, listCollections(r.api))
            [] OTHER -> Throw(r, UnknownTool(r.name))

\* The mutant of Fetched that swallows a response that is not ok and keeps
\* waiting
FetchedSwallowsError(req) ==
  IF req.reply.kind = "reject" THEN Throw(req, Error("fetch failed"))
  ELSE IF ~req.reply.ok THEN req
  ELSE [req EXCEPT !.pc = "Parsing"]

\* The mutant of Fetched that sends the request a second time when the first
\* response is not ok
FetchedRetriesOnce(req) ==
  IF req.reply.kind = "reject" THEN Throw(req, Error("fetch failed"))
  ELSE IF ~req.reply.ok
       THEN IF Len(req.fetch) < 2 THEN [req EXCEPT !.fetch = Append(@, @[1])]
            ELSE Throw(req, Error(ApiError(req.reply.statusText)))
  ELSE [req EXCEPT !.pc = "Parsing"]

\* makeRequest after `await fetch` (lines 26-30 of raindrop-api.ts)
Fetched(req) ==
  IF req.reply.kind = "reject" THEN Throw(req, Error("fetch failed"))
  ELSE IF ~req.reply.ok THEN Throw(req, Error(ApiError(req.reply.statusText)))
  ELSE [req EXCEPT !.pc = "Parsing"]

\* The handler after its await (lines 57-64, 83-107, 113-135)
Parsed(req) ==
  LET body == req.reply.body
  IN IF body.t = "invalid" THEN Throw(req, Error("Unexpected end of JSON input"))
     ELSE CASE req.name = "create-bookmark" ->
                 IF body.o.item.t = "undefined" THEN Throw(req, TypeError("link"))
                 ELSE Succeed(req, << "Bookmark created successfully: "
                                        \o TemplateString(body.o.item.o.link) >>)
            [] req.name = "search-bookmarks" ->
                 IF body.o.items.t = "undefined" THEN Throw(req, TypeError("map"))
                 ELSE Succeed(req, SearchText(req.args.o, body.o))
            [] req.name = "list-collections" ->
                 IF body.o.items.t = "undefined" THEN Throw(req, TypeError("map"))
                 ELSE Succeed(req, CollectionsText(body.o))

(***************************************************************************)
(* Actions.                                                                *)
(***************************************************************************)
\* The server receives request r and runs its handler up to the first await
CallTool(r) ==
  /\ requests[r].pc = "Idle"
  /\ requests' = [requests EXCEPT ![r] = Receive(@, RAINDROP_TOKEN)]
  /\ UNCHANGED RAINDROP_TOKEN

\* The mutant of FetchSettles that hands a settling call the answer to the
\* oldest call still pending
FetchSettlesOldestReply(r) ==
  /\ requests[r].pc = "Calling"
  /\ requests[r].reply.kind # "hang"
  /\ LET pending == {q \in DOMAIN requests :
                       requests[q].pc = "Calling" /\ requests[q].reply.kind # "hang"}
         oldest == CHOOSE q \in pending : \A p \in pending : q <= p
     IN requests' = [requests EXCEPT
                       ![r] = [Fetched([@ EXCEPT !.reply = requests[oldest].reply])
                                 EXCEPT !.reply = requests[r].reply]]
  /\ UNCHANGED RAINDROP_TOKEN

\* The fetch of request r settles
FetchSettles(r) ==
  /\ requests[r].pc = "Calling"
  /\ requests[r].reply.kind # "hang"
  /\ requests' = [requests EXCEPT ![r] = Fetched(@)]
  /\ UNCHANGED RAINDROP_TOKEN

\* response.json() of request r settles and the handler runs to its end
JsonSettles(r) ==
  /\ requests[r].pc = "Parsing"
  /\ requests' = [requests EXCEPT ![r] = Parsed(@)]
  /\ UNCHANGED RAINDROP_TOKEN

\* process.env.RAINDROP_TOKEN is assigned or deleted
SetToken(v) ==
  /\ v # RAINDROP_TOKEN
  /\ RAINDROP_TOKEN' = v
  /\ UNCHANGED requests

(***************************************************************************)
(* Inputs: the values the requests and the remote service are drawn from.  *)
(***************************************************************************)
TokenA == Str(<<"t","o","k","-","a">>)
TokenB == Str(<<"t","o","k","-","b">>)
Tokens == {Undef, Str(<<>>), TokenA, TokenB}

ExampleUrl == <<"h","t","t","p","s",":","/","/","e","x","a","m","p","l","e",".","c","o","m">>
InvalidUrl == <<"i","n","v","a","l","i","d","-","u","r","l">>
NoHostUrl == <<"h","t","t","p","s",":","/","/">>
Example == <<"E","x","a","m","p","l","e">>
Test == <<"t","e","s","t">>
TagA == Str(<<"a">>)
TagB == Str(<<"b">>)

CreateArgs(url, title, tags, collection) ==
  Obj([url |-> url, title |-> title, tags |-> tags, collection |-> collection])

SearchArgs(query, tags, page, perpage, sort, collection, word) ==
  Obj([query |-> query, tags |-> tags, page |-> page, perpage |-> perpage,
       sort |-> sort, collection |-> collection, word |-> word])

NoArgs == Obj(<<>>)

TagValues ==
  {Undef, Arr(<<>>), Arr(<<TagA, TagB>>), Arr(<<Num(1), TagA, Num(2)>>), TagA}

AllCreateArgs ==
  {Undef} \cup
  {CreateArgs(url, title, tags, collection) :
     url \in {Undef, Str(ExampleUrl), Str(InvalidUrl), Str(NoHostUrl), Num(5)},
     title \in {Undef, Str(Example), Str(<<>>), Num(5)},
     tags \in TagValues,
     collection \in {Undef, Num(0), Num(7), Half(1), Str(<<"7">>)}}

AllSearchArgs ==
  {Undef} \cup
  {SearchArgs(query, tags, page, perpage, sort, collection, word) :
     query \in {Undef, Str(<<>>), Str(Test), Str(<<"a", "&", "b", " ", "c">>)},
     tags \in TagValues \ {TagA},
     page \in {Undef, Num(0), Num(1), Half(1), Num(-1)},
     perpage \in {Undef, Num(0), Num(1), Num(50), Num(51), Half(50)},
     sort \in {Undef, Str(<<"-","c","r","e","a","t","e","d">>), Str(<<"b","o","g","u","s">>)},
     collection \in {Undef, Num(0), Num(7)},
     word \in {Undef, Bool(TRUE), Bool(FALSE), Str(<<"t","r","u","e">>)}}

\* The remote service's answers
Hang == [kind |-> "hang", ok |-> FALSE, statusText |-> "", body |-> [t |-> "invalid"]]
Reject == [kind |-> "reject", ok |-> FALSE, statusText |-> "", body |-> [t |-> "invalid"]]
NotOk(statusText) ==
  [kind |-> "response", ok |-> FALSE, statusText |-> statusText,
   body |-> Obj([error |-> statusText])]
Ok(body) == [kind |-> "response", ok |-> TRUE, statusText |-> "OK", body |-> body]

Failures == {Hang, Reject, NotOk("Invalid token"), NotOk(""), Ok([t |-> "invalid"])}

SeqsUpTo(S, n) == UNION {[1..k -> S] : k \in 0..n}

CreateBodies ==
  {Obj([item |-> Undef]), Obj([item |-> Obj([link |-> Undef])]),
   Obj([item |-> Obj([link |-> Str(ExampleUrl)])])}

Bookmarks ==
  {[title |-> "Test Bookmark", link |-> "https://example.com",
    tags |-> Arr(<<"test", "example">>),
    created |-> "2024-03-20T00:00:00.000Z", lastUpdate |-> "2024-03-21T09:30:00.000Z"],
   [title |-> "Untagged", link |-> "https://example.org/a", tags |-> Undef,
    created |-> "2024-03-21T09:30:00.000Z", lastUpdate |-> "2024-03-21T09:30:00.000Z"],
   [title |-> "Empty tags", link |-> "https://example.net", tags |-> Arr(<<>>),
    created |-> "yesterday", lastUpdate |-> "2024-03-20T00:00:00.000Z"]}

SearchBodies ==
  {Obj([items |-> Undef, count |-> Undef])} \cup
  {Obj([items |-> Arr(items), count |-> count]) :
     items \in SeqsUpTo(Bookmarks, MaxItems), count \in {Num(1), Num(30)}}

Collections ==
  {[_id |-> Num(1), title |-> "Test Collection", count |-> Num(5),
    created |-> "2024-03-20T00:00:00.000Z", parent |-> Undef],
   [_id |-> Num(2), title |-> "Child", count |-> Num(0),
    created |-> "2024-03-21T09:30:00.000Z", parent |-> Obj([_id |-> Num(1)])],
   [_id |-> Num(3), title |-> "Orphan", count |-> Num(12),
    created |-> "2024-03-21T09:30:00.000Z", parent |-> Obj([_id |-> Num(0)])]}

CollectionsBodies ==
  {Obj([items |-> Undef])} \cup
  {Obj([items |-> Arr(items)]) : items \in SeqsUpTo(Collections, MaxItems)}

ToolNames == {"create-bookmark", "search-bookmarks", "list-collections"}
UnknownNames == {"delete-bookmark", "Create-Bookmark", ""}

\* Every request of one tool call: all arguments with one answer, and the
\* accepted arguments with every answer
AllCalls ==
  {NewRequest("create-bookmark", a, Ok(Obj([item |-> Obj([link |-> Str(ExampleUrl)])]))) :
     a \in AllCreateArgs}
  \cup {NewRequest("create-bookmark", a, reply) :
          a \in {CreateArgs(Str(ExampleUrl), t, Undef, Undef) : t \in {Undef, Str(Example)}},
          reply \in Failures \cup {Ok(b) : b \in CreateBodies}}
  \cup {NewRequest("search-bookmarks", a, Ok(Obj([items |-> Arr(<<>>), count |-> Num(1)]))) :
          a \in AllSearchArgs}
  \cup {NewRequest("search-bookmarks", a, reply) :
          a \in {SearchArgs(Str(Test), Undef, page, Undef, Undef, Undef, Undef) :
                   page \in {Undef, Num(0), Num(1), Half(1)}},
          reply \in Failures \cup {Ok(b) : b \in SearchBodies}}
  \cup {NewRequest("list-collections", a, reply) :
          a \in {Undef, NoArgs},
          reply \in Failures \cup {Ok(b) : b \in CollectionsBodies}}
  \cup {NewRequest(name, a, Hang) :
          name \in UnknownNames,
          a \in {Undef, NoArgs, CreateArgs(Str(ExampleUrl), Undef, Undef, Undef)}}

\* The requests of a session of several requests
SampleCalls ==
  {NewRequest("create-bookmark", CreateArgs(Str(ExampleUrl), Str(Example), Undef, Undef),
              reply) :
     reply \in {NotOk("Invalid token"), Ok(Obj([item |-> Obj([link |-> Str(ExampleUrl)])]))}}
  \cup {NewRequest("create-bookmark", CreateArgs(Str(InvalidUrl), Undef, Undef, Undef), Hang)}
  \cup {NewRequest("search-bookmarks",
                   SearchArgs(Str(Test), Undef, Num(0), Undef, Undef, Undef, Undef), reply) :
          reply \in {Hang,
                     Ok(Obj([items |-> Arr(<<CHOOSE b \in Bookmarks : b.title = "Untagged">>),
                             count |-> Num(30)]))}}
  \cup {NewRequest("list-collections", NoArgs, reply) :
          reply \in {NotOk("Unauthorized"), Ok(Obj([items |-> Arr(<<>>)]))}}
  \cup {NewRequest("delete-bookmark", NoArgs, Hang)}

(***************************************************************************)
(* Specifications.                                                         *)
(***************************************************************************)
\* A session of MaxRequests requests, in flight together
Init ==
  /\ RAINDROP_TOKEN \in Tokens
  /\ requests \in [Requests -> SampleCalls]

Next ==
  \/ \E r \in DOMAIN requests : CallTool(r)
  \/ \E r \in DOMAIN requests : FetchSettles(r)
  \/ \E r \in DOMAIN requests : JsonSettles(r)
  \/ \E v \in Tokens : SetToken(v)

Spec == Init /\ [][Next]_vars

\* The event loop runs every handler step that stays ready: a request that was
\* sent is received, and the continuation of a settled promise is run.  The
\* first conjunct is WF_vars(CallTool(r)) with its ENABLED written out: the
\* handler always leaves "Idle", so CallTool(r) can change the state exactly
\* while request r is idle.
Fairness ==
  \A r \in Requests :
    /\ []<>(requests[r].pc # "Idle") \/ []<><<CallTool(r)>>_vars
    /\ WF_vars(FetchSettles(r))
    /\ WF_vars(JsonSettles(r))

FairSpec == Init /\ [][Next]_vars /\ Fairness

\* One request, of every tool, with every argument set and every answer
InitCall ==
  /\ RAINDROP_TOKEN \in Tokens
  /\ requests \in [{1} -> AllCalls]

NextCall ==
  \/ \E r \in DOMAIN requests : CallTool(r)
  \/ \E r \in DOMAIN requests : FetchSettles(r)
  \/ \E r \in DOMAIN requests : JsonSettles(r)

SpecCall == InitCall /\ [][NextCall]_vars

(***************************************************************************)
(* Properties.                                                             *)
(***************************************************************************)
Started(req) == req.pc # "Idle"
Issued(req) == req.fetch # <<>>
Ended(req) == req.pc \in {"Success", "Failed"}
NotOkReply(req) == req.reply.kind = "response" /\ ~req.reply.ok

\* The values of the members named key of a JSON member list
MemberValues(members, key) ==
  {members[i][2] : i \in {j \in 1..Len(members) : members[j][1] = key}}

\* C1: the body of the POST of a create-bookmark call holds link = url, title
\* and tags exactly when they were supplied (no member is null), and a
\* collection reference whose $id is the supplied collection, 0 when none
\* was supplied.
C1_CreateBody ==
  \A r \in DOMAIN requests :
    LET req == requests[r] IN
    (req.name = "create-bookmark" /\ Issued(req)) =>
      LET a == req.args.o
          call == req.fetch[1]
          m == call.body.members
      IN /\ Len(req.fetch) = 1
         /\ call.method = "POST"
         /\ call.url = "https://api.raindrop.io/rest/v1/raindrop"
         /\ call.body.t = "json"
         /\ \A i \in 1..Len(m) : m[i][1] \in {"link", "title", "tags", "collection"}
         /\ \A i \in 1..Len(m) : m[i][2].t \notin {"undefined", "null"}
         /\ \A i, j \in 1..Len(m) : m[i][1] = m[j][1] => i = j
         /\ MemberValues(m, "link") = {a.url}
         /\ MemberValues(m, "title") = IF a.title.t = "undefined" THEN {} ELSE {a.title}
         /\ MemberValues(m, "tags") = IF a.tags.t = "undefined" THEN {} ELSE {a.tags}
         /\ MemberValues(m, "collection") =
              {Obj(<< <<"$id", IF a.collection.t = "undefined" THEN Num(0)
                               ELSE a.collection>> >>)}

C1_Witness ==
  \E r \in DOMAIN requests :
    /\ requests[r].name = "create-bookmark"
    /\ Issued(requests[r])
    /\ requests[r].args.o.title.t = "undefined"
    /\ requests[r].args.o.tags = Arr(<<TagA, TagB>>)
    /\ requests[r].args.o.collection.t = "undefined"

\* C2: when the HTTP response of a call of any of the three client
\* operations is not a success and carries status text X, the request ends
\* Failed with the message "Raindrop API error: X", returns no text, and the
\* message is not rewritten as a validation error.
C2_RemoteError ==
  \A r \in DOMAIN requests :
    LET req == requests[r] IN
    (Issued(req) /\ NotOkReply(req) /\ req.pc # "Calling") =>
      /\ req.name \in ToolNames
      /\ req.pc = "Failed"
      /\ req.error = "Raindrop API error: " \o req.reply.statusText
      /\ req.content = <<>>

C2_Witness ==
  \E r \in DOMAIN requests :
    /\ requests[r].name = "search-bookmarks"
    /\ NotOkReply(requests[r])
    /\ requests[r].reply.statusText = "Invalid token"
    /\ requests[r].pc = "Failed"
    /\ Issued(requests[r])

\* C3 as stated: every request whose name is none of the three tool names
\* fails with "Unknown tool: <name>".
C3_UnknownToolAlways ==
  \A r \in DOMAIN requests :
    LET req == requests[r] IN
    (req.name \notin ToolNames /\ Started(req)) =>
      (req.pc = "Failed" /\ req.error = "Unknown tool: " \o req.name)

\* C3 as amended: every request that arrives while the token is set and
\* whose name is none of the three tool names fails with
\* "Unknown tool: <name>", without an HTTP request; when the token is not
\* set it fails with "RAINDROP_TOKEN is not set".
C3_UnknownTool ==
  \A r \in DOMAIN requests :
    LET req == requests[r] IN
    (req.name \notin ToolNames /\ Started(req)) =>
      /\ req.pc = "Failed"
      /\ ~Issued(req)
      /\ req.error = IF Truthy(RAINDROP_TOKEN) THEN "Unknown tool: " \o req.name
                     ELSE "RAINDROP_TOKEN is not set"

C3_Witness ==
  \E r \in DOMAIN requests :
    /\ requests[r].name = "Create-Bookmark"
    /\ requests[r].pc = "Failed"
    /\ Truthy(RAINDROP_TOKEN)

\* The schema of a tool, <<>> for a tool that validates nothing
SchemaOf(name) ==
  CASE name = "create-bookmark" -> CreateBookmarkSchema
    [] name = "search-bookmarks" -> SearchBookmarksSchema
    [] OTHER -> <<>>

\* C4: the token is checked at each request and not at startup.  A request
\* that arrives while the token is absent fails with "RAINDROP_TOKEN is not
\* set" whatever its name and arguments, and nothing else of it changes (no
\* validation error, no tool lookup, no HTTP request) and no other request
\* is touched; at every later step, also after such a failure, a request
\* that arrives while the token is set is served with that token: its client
\* holds it, a call it issues carries it, and the request does not fail for
\* a missing token.
C4_TokenPerRequest ==
  [][\A r \in DOMAIN requests :
       (requests[r].pc = "Idle" /\ requests'[r].pc # "Idle") =>
            IF RAINDROP_TOKEN.t = "undefined" \/ RAINDROP_TOKEN = Str(<<>>)
            THEN /\ requests'[r] = [requests[r] EXCEPT !.pc = "Failed",
                                                       !.error = "RAINDROP_TOKEN is not set"]
                 /\ \A q \in DOMAIN requests \ {r} : requests'[q] = requests[q]
            ELSE /\ requests'[r].api = RAINDROP_TOKEN
                 /\ requests'[r].error # "RAINDROP_TOKEN is not set"
                 /\ IF /\ requests[r].name \in ToolNames
                       /\ ZodParse(SchemaOf(requests[r].name), requests[r].args) = <<>>
                    THEN /\ requests'[r].pc = "Calling"
                         /\ Len(requests'[r].fetch) = 1
                         /\ requests'[r].fetch[1].headers.Authorization
                              = "Bearer " \o Concat(RAINDROP_TOKEN.s)
                    ELSE /\ requests'[r].pc = "Failed"
                         /\ requests'[r].fetch = <<>>
    ]_vars

C4_Witness ==
  \E r1, r2 \in DOMAIN requests :
    /\ requests[r1].pc = "Failed"
    /\ requests[r1].error = "RAINDROP_TOKEN is not set"
    /\ requests[r1].name = "delete-bookmark"
    /\ requests[r2].pc = "Success"
    /\ requests[r2].api = TokenB
    /\ requests[r2].fetch[1].headers.Authorization = "Bearer tok-b"

\* What the schemas ask of each field, stated on the values
IsStringArray(v) == v.t = "array" /\ \A i \in 1..Len(v.a) : v.a[i].t = "string"
Absent(v) == v.t = "undefined"
TokenSet == RAINDROP_TOKEN.t = "string" /\ RAINDROP_TOKEN.s # <<>>

CreateFieldOk(a, key) ==
  CASE key = "url" -> a.url.t = "string" /\ IsUrl(a.url.s)
    [] key = "title" -> Absent(a.title) \/ a.title.t = "string"
    [] key = "tags" -> Absent(a.tags) \/ IsStringArray(a.tags)
    [] key = "collection" -> Absent(a.collection) \/ a.collection.t = "number"

SearchFieldOk(a, key) ==
  CASE key = "query" -> a.query.t = "string"
    [] key = "tags" -> Absent(a.tags) \/ IsStringArray(a.tags)
    [] key = "page" -> Absent(a.page) \/ (a.page.t = "number" /\ a.page.int >= 0)
    [] key = "perpage" ->
         \/ Absent(a.perpage)
         \/ /\ a.perpage.t = "number"
            /\ a.perpage.int >= 1
            /\ (a.perpage.int < 50 \/ (a.perpage.int = 50 /\ ~a.perpage.half))
    [] key = "sort" ->
         \/ Absent(a.sort)
         \/ (a.sort.t = "string" /\ \E i \in 1..Len(SortKeys) : SortKeys[i] = Concat(a.sort.s))
    [] key = "collection" -> Absent(a.collection) \/ a.collection.t = "number"
    [] key = "word" -> Absent(a.word) \/ a.word.t = "boolean"

FieldOk(name, a, key) ==
  IF name = "create-bookmark" THEN CreateFieldOk(a, key) ELSE SearchFieldOk(a, key)

ViolatesSchema(req) ==
  \/ req.args.t # "object"
  \/ \E i \in 1..Len(SchemaOf(req.name)) :
       ~FieldOk(req.name, req.args.o, SchemaOf(req.name)[i].key)

\* The "path: message" entries of the violated fields, in schema order
ViolationEntries(req) ==
  IF req.args.t # "object" THEN << ": Required" >>
  ELSE LET schema == SchemaOf(req.name)
           entries(i) ==
             IF FieldOk(req.name, req.args.o, schema[i].key) THEN <<>>
             ELSE LET issues == FieldIssues(schema[i], req.args.o[schema[i].key])
                  IN [j \in 1..Len(issues) |-> IssueText(issues[j])]
       IN Flatten([i \in 1..Len(schema) |-> entries(i)])

ValidationFailure(req) ==
  /\ req.pc = "Failed"
  /\ ~Issued(req)
  /\ req.content = <<>>
  /\ req.error = "Invalid arguments: " \o JoinStrings(ViolationEntries(req), ", ")
  /\ req.args.t = "object" =>
       \A i \in 1..Len(SchemaOf(req.name)) :
         LET f == SchemaOf(req.name)[i]
             issues == FieldIssues(f, req.args.o[f.key])
         IN ~FieldOk(req.name, req.args.o, f.key) =>
              /\ issues # <<>>
              /\ \A j \in 1..Len(issues) : issues[j].path[1] = f.key

\* C5 as stated: a create-bookmark or search-bookmarks request whose
\* arguments violate the schema fails with one error "Invalid arguments: "
\* followed by an entry for every violated field, and issues no HTTP request.
C5_ValidationAlways ==
  \A r \in DOMAIN requests :
    LET req == requests[r] IN
    (req.name \in {"create-bookmark", "search-bookmarks"} /\ Started(req)
       /\ ViolatesSchema(req)) => ValidationFailure(req)

\* C5 as amended: a create-bookmark or search-bookmarks request that arrives
\* while the token is set and whose arguments violate the schema fails with
\* one error whose message is "Invalid arguments: " followed by the
\* "path: message" entries of every violated field, joined by ", ", and no
\* HTTP request is issued for it.
C5_Validation ==
  \A r \in DOMAIN requests :
    LET req == requests[r] IN
    (req.name \in {"create-bookmark", "search-bookmarks"} /\ Started(req)
       /\ TokenSet /\ ViolatesSchema(req)) => ValidationFailure(req)

C5_Witness ==
  \E r \in DOMAIN requests :
    /\ requests[r].name = "create-bookmark"
    /\ requests[r].pc = "Failed"
    /\ requests[r].fetch = <<>>
    /\ requests[r].args = CreateArgs(Str(InvalidUrl), Num(5), Arr(<<Num(1), TagA, Num(2)>>),
                                     Undef)
    /\ requests[r].error =
         "Invalid arguments: url: Invalid url, title: Expected string, received number, "
           \o "tags.0: Expected string, received number, "
           \o "tags.2: Expected string, received number"

\* C6 as stated: the search-bookmarks validator accepts an argument set
\* exactly when query is a non-empty string, page is absent or an integer
\* >= 0, perpage is absent or an integer in 1..50, sort is absent or one of
\* the eight sort keys, tags is absent or a list of strings, collection is
\* absent or an integer, word is absent or a boolean.
C6_AcceptsIntegersOnly ==
  \A r \in DOMAIN requests :
    LET req == requests[r]
        a == req.args.o
    IN (req.name = "search-bookmarks" /\ Started(req) /\ TokenSet
          /\ req.args.t = "object") =>
         (Issued(req) <=>
            /\ a.query.t = "string" /\ a.query.s # <<>>
            /\ Absent(a.page) \/ (IsInteger(a.page) /\ a.page.int >= 0)
            /\ Absent(a.perpage)
                 \/ (IsInteger(a.perpage) /\ a.perpage.int >= 1 /\ a.perpage.int <= 50)
            /\ SearchFieldOk(a, "sort")
            /\ Absent(a.tags) \/ IsStringArray(a.tags)
            /\ Absent(a.collection) \/ IsInteger(a.collection)
            /\ Absent(a.word) \/ a.word.t = "boolean")

\* C6 as amended: the search-bookmarks validator accepts an argument set
\* exactly when query is a string (the empty string too), page is absent or
\* a number >= 0 (an integer or not), perpage is absent or a number from 1
\* to 50 (an integer or not), sort is absent or one of the eight sort keys,
\* tags is absent or a list of strings, collection is absent or a number,
\* word is absent or a boolean.
C6_Accepts ==
  \A r \in DOMAIN requests :
    LET req == requests[r] IN
    (req.name = "search-bookmarks" /\ Started(req) /\ TokenSet) =>
      (Issued(req) <=>
         /\ req.args.t = "object"
         /\ \A key \in {"query", "tags", "page", "perpage", "sort", "collection", "word"} :
              SearchFieldOk(req.args.o, key))

C6_Witness ==
  \E r \in DOMAIN requests :
    /\ requests[r].name = "search-bookmarks"
    /\ Issued(requests[r])
    /\ requests[r].args.t = "object"
    /\ requests[r].args.o.query = Str(<<>>)
    /\ requests[r].args.o.page = Half(1)
    /\ requests[r].args.o.perpage = Num(50)

\* The query string C7 describes for the arguments a
ExpectedQuery(a) ==
  JoinStrings(
    << "search=" \o FormEncode(a.query.s) >>
    \o (IF Absent(a.tags) THEN <<>>
        ELSE << "tags=" \o FormEncode(JoinChars([i \in 1..Len(a.tags.a) |-> a.tags.a[i].s],
                                                <<",">>)) >>)
    \o (IF Absent(a.page) THEN <<>> ELSE << "page=" \o NumberToString(a.page) >>)
    \o (IF Absent(a.perpage) THEN <<>> ELSE << "perpage=" \o NumberToString(a.perpage) >>)
    \o (IF Absent(a.sort) THEN <<>> ELSE << "sort=" \o Concat(a.sort.s) >>)
    \o (IF Absent(a.word) THEN <<>>
        ELSE << "word=" \o (IF a.word.b THEN "true" ELSE "false") >>),
    "&")

\* C7: the GET of a valid search-bookmarks call goes to
\* /raindrops/{c}?{query}, c the supplied collection or 0; the query carries
\* search=<query> always, tags=<the tags joined with commas, form-encoded>
\* exactly when tags was supplied (tags=a%2Cb for ["a","b"]), page, perpage
\* and sort exactly when supplied (page = 0 too), and word as "true" or
\* "false" exactly when supplied (word = false too).
C7_SearchUrl ==
  \A r \in DOMAIN requests :
    LET req == requests[r]
        a == req.args.o
    IN (req.name = "search-bookmarks" /\ Issued(req)) =>
         /\ Len(req.fetch) = 1
         /\ req.fetch[1].method = "GET"
         /\ req.fetch[1].body = NoBody
         /\ req.fetch[1].url =
              "https://api.raindrop.io/rest/v1/raindrops/"
                \o (IF Absent(a.collection) THEN "0" ELSE NumberToString(a.collection))
                \o "?" \o ExpectedQuery(a)
         /\ (a = SearchArgs(Str(Test), Arr(<<TagA, TagB>>), Undef, Undef, Undef, Undef, Undef).o)
              => req.fetch[1].url
                   = "https://api.raindrop.io/rest/v1/raindrops/0?search=test&tags=a%2Cb"

C7_Witness ==
  \E r \in DOMAIN requests :
    /\ requests[r].name = "search-bookmarks"
    /\ Issued(requests[r])
    /\ requests[r].args
         = SearchArgs(Str(Test), Arr(<<TagA, TagB>>), Num(0), Undef, Undef, Undef, Bool(FALSE))
    /\ requests[r].fetch[1].url
         = "https://api.raindrop.io/rest/v1/raindrops/0?search=test&tags=a%2Cb&page=0&word=false"

SearchSucceeded(req) ==
  /\ req.name = "search-bookmarks"
  /\ req.pc = "Success"

\* C8: in the header of the search results the displayed page number is 1
\* when page was not supplied and page + 1 when it was.
C8_PagePlusOne ==
  \A r \in DOMAIN requests :
    LET req == requests[r]
        page == req.args.o.page
        results == req.reply.body.o
    IN (SearchSucceeded(req) /\ Len(results.items.a) > 0) =>
         req.content[1] =
           "Found " \o NumberToString(results.count) \o " total bookmarks (showing "
             \o ToString(Len(results.items.a)) \o " on page "
             \o (IF Absent(page) THEN "1"
                 ELSE NumberToString([page EXCEPT !.int = @ + 1]))
             \o "):"

\* What the code displays instead: the page as supplied
C8_PageAsSupplied ==
  \E r \in DOMAIN requests :
    /\ SearchSucceeded(requests[r])
    /\ requests[r].args.o.page = Num(0)
    /\ requests[r].reply.body.o.count = Num(30)
    /\ Len(requests[r].reply.body.o.items.a) = 1
    /\ requests[r].content[1] = "Found 30 total bookmarks (showing 1 on page 0):"

C9_PageLabels == {"0", "1", "2", "1.5", "2.5"}

\* C9: a successful search response with no items gives exactly
\* "No bookmarks found matching your search."; otherwise the text starts
\* with "Found <count> total bookmarks (showing <n> on page ", <count> the
\* count field of the response and <n> the number of items, followed by one
\* block per item in response order with its title, URL and both
\* timestamps, and "No tags" for an item whose tags are missing or empty;
\* a response with well-formed items never makes the request fail.
C9_SearchText ==
  \A r \in DOMAIN requests :
    LET req == requests[r]
        body == req.reply.body
    IN (req.name = "search-bookmarks" /\ Ended(req) /\ Issued(req)
          /\ req.reply.kind = "response" /\ req.reply.ok
          /\ body.t = "object" /\ body.o.items.t = "array") =>
         LET items == body.o.items.a
             n == Len(items)
             text == req.content
         IN /\ req.pc = "Success"
            /\ n = 0 => text = << "No bookmarks found matching your search." >>
            /\ n > 0 =>
                 /\ \E p \in C9_PageLabels :
                      text[1] = "Found " \o NumberToString(body.o.count)
                                  \o " total bookmarks (showing " \o ToString(n)
                                  \o " on page " \o p \o "):"
                 /\ Len(text) = 1 + 7 * n
                 /\ \A i \in 1..n :
                      LET at == 1 + 7 * (i - 1) IN
                      /\ text[at + 2] = "Title: " \o items[i].title
                      /\ text[at + 3] = "URL: " \o items[i].link
                      /\ (Absent(items[i].tags) \/ items[i].tags.a = <<>>)
                           => text[at + 4] = "Tags: No tags"
                      /\ text[at + 5] = "Created: " \o ToLocaleString(items[i].created)
                      /\ text[at + 6] = "Last Updated: " \o ToLocaleString(items[i].lastUpdate)
                      /\ text[at + 7] = "---"

C9_Witness ==
  \E r \in DOMAIN requests :
    /\ SearchSucceeded(requests[r])
    /\ requests[r].reply.body.o.count = Num(30)
    /\ Len(requests[r].content) = 15
    /\ requests[r].content[1] = "Found 30 total bookmarks (showing 2 on page 1):"
    /\ requests[r].content[3] = "Title: Untagged"
    /\ requests[r].content[5] = "Tags: No tags"
    /\ requests[r].content[10] = "Title: Test Bookmark"
    /\ requests[r].content[12] = "Tags: test, example"
    /\ requests[r].content[13] = "Created: 3/20/2024, 12:00:00 AM"

\* C10: a successful list-collections response with no items gives exactly
\* "No collections found."; otherwise the text starts with
\* "Found <n> collections:", followed by one block per collection in
\* response order with its name, id, bookmark count, creation timestamp and
\* its parent's id when it has a parent, "None" when it has none.
C10_CollectionsText ==
  \A r \in DOMAIN requests :
    LET req == requests[r]
        body == req.reply.body
    IN (req.name = "list-collections" /\ Ended(req) /\ Issued(req)
          /\ req.reply.kind = "response" /\ req.reply.ok
          /\ body.t = "object" /\ body.o.items.t = "array") =>
         LET items == body.o.items.a
             n == Len(items)
             text == req.content
         IN /\ req.pc = "Success"
            /\ n = 0 => text = << "No collections found." >>
            /\ n > 0 =>
                 /\ text[1] = "Found " \o ToString(n) \o " collections:"
                 /\ Len(text) = 1 + 7 * n
                 /\ \A i \in 1..n :
                      LET at == 1 + 7 * (i - 1) IN
                      /\ text[at + 2] = "Name: " \o items[i].title
                      /\ text[at + 3] = "ID: " \o NumberToString(items[i]._id)
                      /\ text[at + 4] = "Count: " \o NumberToString(items[i].count)
                                          \o " bookmarks"
                      /\ text[at + 5] =
                           "Parent: " \o (IF Absent(items[i].parent) THEN "None"
                                          ELSE NumberToString(items[i].parent.o._id))
                      /\ text[at + 6] = "Created: " \o ToLocaleString(items[i].created)

\* What the code displays instead: "None" for a parent whose id is 0
C10_ParentZeroIsNone ==
  \E r \in DOMAIN requests :
    /\ requests[r].name = "list-collections"
    /\ requests[r].pc = "Success"
    /\ Len(requests[r].reply.body.o.items.a) = 1
    /\ requests[r].reply.body.o.items.a[1].parent = Obj([_id |-> Num(0)])
    /\ requests[r].content[6] = "Parent: None"

\* The remote call of the request was issued and never answers
Hung(req) == req.pc = "Calling" /\ req.reply.kind = "hang"

\* The answer to the request's call is one the handler can format
Formattable(req) ==
  /\ req.reply.kind = "response" /\ req.reply.ok
  /\ req.reply.body.t = "object"
  /\ CASE req.name = "create-bookmark" -> ~Absent(req.reply.body.o.item)
       [] req.name \in {"search-bookmarks", "list-collections"} ->
            ~Absent(req.reply.body.o.items)
       [] OTHER -> FALSE

\* Success with a text payload and no error, or Failed with an error and no
\* payload; Success exactly for a call that was issued and answered well
Outcome(req) ==
  /\ req.pc = "Success" => req.content # <<>> /\ req.error = ""
  /\ req.pc = "Failed" => req.content = <<>> /\ req.error # ""
  /\ req.pc = "Success" <=> (Issued(req) /\ Formattable(req))

\* C11: every request whose remote call, if it has one, is answered ends in
\* exactly one terminal outcome, Success with a text payload or Failed with
\* an error, and keeps it; whatever failed before (missing token,
\* validation, remote error, unknown tool), the requests that follow are
\* received and served; a request whose call never answers stays pending
\* alone, and every other request completes.
C11_Terminates ==
  /\ [](\A r \in Requests : Ended(requests[r]) => Outcome(requests[r]))
  /\ [][\A r \in Requests : Ended(requests[r]) => requests'[r] = requests[r]]_vars
  /\ <>[](\A r \in Requests : Ended(requests[r]) \/ Hung(requests[r]))

C11_Witness ==
  \E r1, r2 \in DOMAIN requests :
    /\ Hung(requests[r1])
    /\ requests[r2].pc = "Success"
    /\ requests[r2].api # requests[r1].api


\* The arguments pass the validation of the tool (list-collections has none)
ValidArguments(req) == req.name = "list-collections" \/ ~ViolatesSchema(req)

\* C12: a call-tool request issues at most one HTTP request: exactly one when
\* the token is present, the tool is one of the three of the catalog and the
\* arguments are valid, none when the token is absent, the arguments are
\* invalid or the tool is unknown; once issued, whether it fails or not, the
\* HTTP request is not sent again.
C12_OneFetch ==
  /\ [](\A r \in DOMAIN requests :
          LET req == requests[r] IN
          /\ Len(req.fetch) <= 1
          /\ Started(req) =>
               (Len(req.fetch) = 1 <=>
                  (TokenSet /\ req.name \in ToolNames /\ ValidArguments(req))))
  /\ [][\A r \in DOMAIN requests :
          Started(requests[r]) => requests'[r].fetch = requests[r].fetch]_vars

C12_Witness ==
  \E r \in DOMAIN requests :
    /\ NotOkReply(requests[r])
    /\ requests[r].pc = "Failed"
    /\ Len(requests[r].fetch) = 1
    /\ requests[r].error = "Raindrop API error: Invalid token"


\* The request as it ends when it is the only one the server handles
Alone(req) ==
  LET received == Receive(NewRequest(req.name, req.args, req.reply), req.api)
      fetched == IF received.pc = "Calling" /\ req.reply.kind # "hang"
                 THEN Fetched(received) ELSE received
  IN IF fetched.pc = "Parsing" THEN Parsed(fetched) ELSE fetched

\* C13: requests in flight together do not interfere.  The HTTP call of a
\* request carries "Authorization: Bearer <token>" with the token read when
\* the request started, and keeps it when the configured token changes while
\* the call is pending; a step of one request leaves every other request as
\* it is; and a request that issued its call ends as it would end alone,
\* with the outcome computed from its own name, arguments and response, in
\* whatever order the responses arrive.
C13_NoInterference ==
  /\ [](\A r \in DOMAIN requests :
          LET req == requests[r] IN
          /\ Issued(req) =>
               req.fetch[1].headers.Authorization = "Bearer " \o Concat(req.api.s)
          /\ (Issued(req) /\ Ended(req)) =>
               /\ req.pc = Alone(req).pc
               /\ req.content = Alone(req).content
               /\ req.error = Alone(req).error)
  /\ [][\A r \in DOMAIN requests :
          /\ (~Started(requests[r]) /\ Issued(requests'[r])) =>
               requests'[r].api = RAINDROP_TOKEN
          /\ Started(requests[r]) =>
               /\ requests'[r].api = requests[r].api
               /\ requests'[r].fetch = requests[r].fetch
          /\ requests'[r] # requests[r] =>
               \A q \in DOMAIN requests \ {r} : requests'[q] = requests[q]]_vars

C13_Witness ==
  \E r1, r2 \in DOMAIN requests :
    /\ requests[r1].pc = "Calling"
    /\ requests[r1].reply.kind = "response"
    /\ requests[r1].api = TokenA
    /\ requests[r1].fetch[1].headers.Authorization = "Bearer tok-a"
    /\ requests[r2].pc = "Failed"
    /\ Issued(requests[r2])
    /\ requests[r2].api = TokenB
    /\ requests[r2].fetch[1].headers.Authorization = "Bearer tok-b"
    /\ requests[r2].error = "Raindrop API error: Unauthorized"
    /\ RAINDROP_TOKEN = Undef


=============================================================================
